---- MODULE Spec2Model ----
(***************************************************************************)
(* Model of the ROI tracking loop (SimpleTracking/skeleton.cpp), of the    *)
(* chessboard view collection (views_chessbd.cpp, dot_coords.cpp) and of   *)
(* the camera-model loading of the lims-hsv-system vision code.            *)
(***************************************************************************)
EXTENDS Integers, Sequences, FiniteSets, TLC

(***************************************************************************)
(* Program constants                                                       *)
(***************************************************************************)
SEQ_LEN == 2
ROI_BOX == 64
IMG_WIDTH == 1024
IMG_HEIGHT == 1024
NEXT_IMAGE == 1
FRAME_TIME == 50000
EXPOSURE == 20000
MAX_ROI == 8
TAG_SHIFT == 16
FG_OK == 0
CV_OK == 0
EBADF == 9
ENOMEM == 12

INIT_BLOB_COORD_MIN == <<434, 592, 572, 583>>
INIT_BLOB_COORD_MAX == <<434 + 30, 592 + 30, 572 + 30, 583 + 30>>

(***************************************************************************)
(* Bounds of the model                                                     *)
(***************************************************************************)
MaxFrames == 2
MaxTagId == 2
\* keys the console holds unread at most
MaxKeys == 2

\* return values of the frame grabber library on failure (negative)
FgErrCodes == {-2120}
\* value of GetLastError() after a failed priority change (non-zero)
WinErrCodes == {5}

\* the keys typed on the console: the quit key and any other key
Keys == {"q", "x"}

\* An unsigned int (img_nr, cur_roi, ts) is represented by the int that has the
\* same 32 bits: the values from 2^31 up appear as the negative ints, so a
\* negative error code stored into img_nr stays the same number here and is the
\* unsigned value 2^32 + code in the program.
IsFrameCount(v) == v >= 0

\* C integer division truncates toward zero
CDiv(a, b) == IF a >= 0 THEN a \div b ELSE -((-a) \div b)

Min(a, b) == IF a < b THEN a ELSE b
Max(a, b) == IF a > b THEN a ELSE b

(***************************************************************************)
(* TrackingWindow                                                          *)
(***************************************************************************)
\* memset(&wins, 0, sizeof(TrackingSequence))
ZeroWindow ==
  [roi |-> 0, roi_w |-> 0, roi_h |-> 0, img_w |-> 0, img_h |-> 0,
   roi_xoff |-> 0, roi_yoff |-> 0,
   blob_xmin |-> 0, blob_ymin |-> 0, blob_xmax |-> 0, blob_ymax |-> 0,
   frame_time |-> 0, exposure |-> 0, img |-> 0]

SetTrackCamParameters(win, f, e) ==
  [win EXCEPT !.frame_time = f, !.exposure = e]

\* centre the hardware ROI on (x, y): round the x offset down to a multiple
\* of 4 and clamp the box to the sensor
set_roi_box(win, x, y) ==
  LET cx == Max(0, Min(x - CDiv(win.roi_w, 2), win.img_w - win.roi_w))
      cy == Max(0, Min(y - CDiv(win.roi_h, 2), win.img_h - win.roi_h))
  IN  [win EXCEPT !.roi_xoff = cx - (cx % 4), !.roi_yoff = cy]

\* image coordinates of the blob -> coordinates relative to the ROI
fix_blob_bounds(win) ==
  [win EXCEPT !.blob_xmin = win.blob_xmin - win.roi_xoff,
              !.blob_xmax = win.blob_xmax - win.roi_xoff,
              !.blob_ymin = win.blob_ymin - win.roi_yoff,
              !.blob_ymax = win.blob_ymax - win.roi_yoff]

\* InitWindow without win->img_w = IMG_WIDTH; win->img_h = IMG_HEIGHT
InitWindow_NoImageSize(win, i) ==
  LET w1 == [win EXCEPT !.roi = i, !.roi_w = ROI_BOX, !.roi_h = ROI_BOX]
      w2 == SetTrackCamParameters(w1, FRAME_TIME, EXPOSURE)
      w3 == [w2 EXCEPT !.blob_xmin = INIT_BLOB_COORD_MIN[i + 1],
                       !.blob_ymin = INIT_BLOB_COORD_MIN[i + 1 + SEQ_LEN],
                       !.blob_xmax = INIT_BLOB_COORD_MAX[i + 1],
                       !.blob_ymax = INIT_BLOB_COORD_MAX[i + 1 + SEQ_LEN]]
      blob_cx == CDiv(w3.blob_xmin + w3.blob_xmax, 2)
      blob_cy == CDiv(w3.blob_ymin + w3.blob_ymax, 2)
      w4 == set_roi_box(w3, blob_cx, blob_cy)
      w5 == fix_blob_bounds(w4)
  IN  SetTrackCamParameters(w5, FRAME_TIME, EXPOSURE)

\* one pass of the loop body of set_initial_positions for window i (0-based)
InitWindow(win, i) ==
  LET w1 == [win EXCEPT !.roi = i, !.roi_w = ROI_BOX, !.roi_h = ROI_BOX,
                        !.img_w = IMG_WIDTH, !.img_h = IMG_HEIGHT]
      w2 == SetTrackCamParameters(w1, FRAME_TIME, EXPOSURE)
      w3 == [w2 EXCEPT !.blob_xmin = INIT_BLOB_COORD_MIN[i + 1],
                       !.blob_ymin = INIT_BLOB_COORD_MIN[i + 1 + SEQ_LEN],
                       !.blob_xmax = INIT_BLOB_COORD_MAX[i + 1],
                       !.blob_ymax = INIT_BLOB_COORD_MAX[i + 1 + SEQ_LEN]]
      blob_cx == CDiv(w3.blob_xmin + w3.blob_xmax, 2)
      blob_cy == CDiv(w3.blob_ymin + w3.blob_ymax, 2)
      w4 == set_roi_box(w3, blob_cx, blob_cy)
      w5 == fix_blob_bounds(w4)
  IN  SetTrackCamParameters(w5, FRAME_TIME, EXPOSURE)

set_initial_positions(ws) ==
  [i \in DOMAIN ws |-> IF i < SEQ_LEN THEN InitWindow(ws[i], i) ELSE ws[i]]

\* blob box found by threshold/erode in the ROI image, relative to the ROI
BlobBoxes ==
  { [xmin |-> 17, xmax |-> 47, ymin |-> 17, ymax |-> 47],
    [xmin |-> 0,  xmax |-> 9,  ymin |-> 17, ymax |-> 47],
    [xmin |-> 50, xmax |-> 63, ymin |-> 40, ymax |-> 63] }
NoBlob == [xmin |-> -1, xmax |-> -1, ymin |-> -1, ymax |-> -1]

\* BlobLocator: the window with the blob box found in its ROI image, relative
\* to the ROI and clipped to it, or the signal that no blob was found; the
\* window is not written then
locate(win, box) ==
  IF box = NoBlob \/ win.roi_w = 0 \/ win.roi_h = 0
    THEN [found |-> FALSE, win |-> win]
    ELSE [found |-> TRUE,
          win |-> [win EXCEPT !.blob_xmin = Min(box.xmin, win.roi_w - 1),
                              !.blob_xmax = Min(box.xmax, win.roi_w - 1),
                              !.blob_ymin = Min(box.ymin, win.roi_h - 1),
                              !.blob_ymax = Min(box.ymax, win.roi_h - 1)]]

\* blob box of win expressed in image (full frame) coordinates
blob_in_image(win) ==
  [win EXCEPT !.blob_xmin = win.blob_xmin + win.roi_xoff,
              !.blob_xmax = win.blob_xmax + win.roi_xoff,
              !.blob_ymin = win.blob_ymin + win.roi_yoff,
              !.blob_ymax = win.blob_ymax + win.roi_yoff]

\* the recentering step: the full-frame centre of the blob box, then the
\* ROI offset that centres the ROI there; only the offset is written, the
\* blob box stays as it was located
recenterRoi(win) ==
  LET w1 == blob_in_image(win)
      blob_cx == CDiv(w1.blob_xmin + w1.blob_xmax, 2)
      blob_cy == CDiv(w1.blob_ymin + w1.blob_ymax, 2)
  IN  set_roi_box(win, blob_cx, blob_cy)

\* position(cur): locate the blob and recentre the ROI on it (buffered, not
\* sent to the camera); without blob the window stays as it is and the
\* caller is told
position(win, box) ==
  LET res == locate(win, box)
  IN  IF res.found THEN [found |-> TRUE, win |-> recenterRoi(res.win)]
      ELSE res

RoiOf(win) ==
  [xoff |-> win.roi_xoff, yoff |-> win.roi_yoff, w |-> win.roi_w, h |-> win.roi_h]
NoRoi == [xoff |-> -1, yoff |-> -1, w |-> -1, h |-> -1]

\* tag of a frame of ROI id: the id in the upper 16 bits, a counter below
TagOf(id, low) == id * (2 ^ TAG_SHIFT) + low
\* cur_roi = cur_roi >> 16, a logical shift of the unsigned value
RoiIdOfTag(tag) ==
  IF tag >= 0 THEN tag \div (2 ^ TAG_SHIFT)
  ELSE (2 ^ TAG_SHIFT) + (tag \div (2 ^ TAG_SHIFT))

\* twice the centre of the blob box of win, in the coordinates of the box
BoxCentre2(win) ==
  <<win.blob_xmin + win.blob_xmax, win.blob_ymin + win.blob_ymax>>

\* twice the pixel handed to cvUndistortPoints:
\* roi_off + (blob_min + blob_max) / 2.0f
PixelX2(win) == 2 * win.roi_xoff + win.blob_xmin + win.blob_xmax
PixelY2(win) == 2 * win.roi_yoff + win.blob_ymin + win.blob_ymax

(***************************************************************************)
(* State of main() of skeleton.cpp                                         *)
(***************************************************************************)
VARIABLES
  pc,          \* position of main()
  status,      \* "running", "returned" or "crashed"
  exitCode,    \* value returned by main()
  loaded,      \* which of intrinsic, distortion, rot, trans are non-NULL
  kb,          \* keys typed and not yet read, oldest first (_kbhit(): kb # << >>)
  img_nr,      \* unsigned int img_nr
  cur_roi,     \* unsigned int cur_roi
  ts,          \* unsigned int ts
  rc,          \* int rc
  wins,        \* wins.windows[0 .. MAX_ROI-1]
  hwRoi,       \* ROI last written to the camera, per ROI id
  lastEmit,    \* last record sent to the comm port
  nEmit,       \* number of records sent to the comm port
  nProj,       \* number of pixel-to-world conversions performed
  steps,       \* steps performed so far by the current iteration
  cause,       \* why the image loop was left
  prev_img_nr, \* img_nr before the last call of Fg_getLastPicNumberBlocking
  lastAcq,     \* outcome of that call in the current iteration
  decoded,     \* the current iteration has decoded cur_roi from the tag
  snap,        \* the windows as they were when the current iteration began
  wrFailed,    \* write_roi failed in the current iteration
  nIter,       \* number of iterations begun
  pix,         \* twice the pixel last converted to world coordinates
  gui,         \* imageData of the display headers cvDisplay0, cvDisplay1
  blob,        \* what position() found in the current iteration
  processed,   \* frame numbers of the iterations that ran to their end
  located      \* twice the full-frame centre of the box position() located

mainVars ==
  <<pc, status, exitCode, loaded, kb, img_nr, cur_roi, ts, rc, wins, hwRoi,
    lastEmit, nEmit, nProj, steps, cause, prev_img_nr, lastAcq, decoded, snap,
    wrFailed, nIter, pix, gui, blob, processed, located>>

\* state of the recentering of one tracking window
MaxRecenter == 2

VARIABLES
  track_win,   \* a TrackingWindow of the running tracker
  nRec         \* number of times position() was applied to it

roiVars == <<track_win, nRec>>

\* ---- the motion predictor of xtal_ball.cpp ----
\* bounds of the filter runs
MaxFilters == 2
MaxCycles == 2

VARIABLES
  kal,         \* CvKalman *kal[n]: the filters, a slot without filter is NULL
  x0,          \* float **x0: NULL or n initial states, each NULL or a vector
  P0,          \* float **P0: NULL or n initial covariances, each NULL or one
  k_pc,        \* "idle", "setup" before setup_kalman, "run" after, "crashed"
  nCycles,     \* calls of prediction made so far
  pred         \* the last call of prediction: filter, dt, state_post before it

kalVars == <<kal, x0, P0, k_pc, nCycles, pred>>

\* ---- TDahMe3Fc::initROIs ----
VARIABLES
  ir_pc,       \* position of TDahMe3Fc::initROIs, "idle" when not called
  ir_n,        \* int n: the number of ROIs asked for
  ir_opts,     \* bool use_kal, bool use_tmplt, handed on to TDah::initROIs
  ir_done,     \* outcome of Fg_stopAcquire, me3_fc_acquire, TDah::initROIs
  ir_seq,      \* the ROI sequence acquisition was restarted with
  ir_ret       \* value returned by TDahMe3Fc::initROIs

irVars == <<ir_pc, ir_n, ir_opts, ir_done, ir_seq, ir_ret>>

\* state of a chessboard view collection
MaxSrcLen == 3
MaxViews == 2
GridRows == 2
GridCols == 2

VARIABLES
  routine,     \* "views": getChessboardViews, "grid": grab_calib_grid,
               \* "intrinsics": get_camera_intrinsics calling grab_calib_grid
  c_pc,        \* "start", "loop", "wait" (inside waitKey) or "done"
  src,         \* the video source: for each frame, whether it shows the board
  rd,          \* number of frames read from the source so far
  n,           \* number of views asked for (n, num_imgs)
  prompt,      \* interactive mode
  save_views,  \* views.save_views, resp. store_imgs != NULL
  good_imgs,   \* int good_imgs
  views,       \* views.pixel, views.world, views.chessboards
  ip,          \* image points: frame whose corners fill the rows of view slot k
  op,          \* object points written for view slot k
  pcnt,        \* point_counts[k]
  store_imgs,  \* store_imgs[k]: frame cloned into slot k, 0 when none
  maxRow,      \* highest row of ip and op written so far, -1 when none
  ret,         \* value returned by the routine
  kept,        \* detections accepted and not discarded so far
  lastKey,     \* key read by the last cvWaitKey
  errRet,      \* the routine returned from one of its error exits
  gci_pc,      \* position of get_camera_intrinsics, "none" when not called
  gci_ret,     \* value returned by get_camera_intrinsics
  persisted    \* Intrinsics.xml and Distortion.xml were saved

calVars ==
  <<routine, c_pc, src, rd, n, prompt, save_views, good_imgs, views, ip, op,
    pcnt, store_imgs, maxRow, ret, kept, lastKey, errRet, gci_pc, gci_ret,
    persisted>>

gciVars == <<gci_pc, gci_ret, persisted>>

\* the routines that run the loop of grab_calib_grid
GridCallers == {"grid", "intrinsics"}

RoiIds == 0 .. (MAX_ROI - 1)
Configured == 0 .. (SEQ_LEN - 1)
NoEmit == [roi |-> -1, px2 |-> -1, py2 |-> -1, ts |-> 0]
NothingLoaded ==
  [intrinsic |-> FALSE, distortion |-> FALSE, rot |-> FALSE, trans |-> FALSE]

MainInit ==
  /\ pc = "load"
  /\ status = "running"
  /\ exitCode = 0
  /\ loaded = NothingLoaded
  /\ kb = << >>
  /\ img_nr = 0
  /\ cur_roi = 0
  /\ ts = 0
  /\ rc = 0
  /\ wins = [i \in RoiIds |-> ZeroWindow]
  /\ hwRoi = [i \in RoiIds |-> NoRoi]
  /\ lastEmit = NoEmit
  /\ nEmit = 0
  /\ nProj = 0
  /\ steps = <<>>
  /\ cause = "none"
  /\ prev_img_nr = 0
  /\ lastAcq = "none"
  /\ decoded = FALSE
  /\ snap = [i \in RoiIds |-> ZeroWindow]
  /\ wrFailed = FALSE
  /\ nIter = 0
  /\ pix = <<0, 0>>
  /\ gui = <<0, 0>>
  /\ blob = "none"
  /\ processed = <<>>
  /\ located = <<0, 0>>

\* return v from main()
Return(v) ==
  /\ pc' = "done"
  /\ status' = "returned"
  /\ exitCode' = v

\* the process dies (dereference of a NULL matrix)
Crash ==
  /\ pc' = "done"
  /\ status' = "crashed"
  /\ UNCHANGED exitCode

Goto(l) ==
  /\ pc' = l
  /\ UNCHANGED <<status, exitCode>>

\* break out of the image loop
Break(why) ==
  /\ Goto("deinit")
  /\ cause' = why

\* a key is typed on the console while main() runs: the console queues it
\* behind the keys not yet read
KeyPress(k) ==
  /\ status = "running"
  /\ pc # "done"
  /\ Len(kb) < MaxKeys
  /\ kb' = Append(kb, k)
  /\ UNCHANGED <<pc, status, exitCode, loaded, img_nr, cur_roi, ts, rc, wins,
                 hwRoi, lastEmit, nEmit, nProj, steps, cause, prev_img_nr,
                 lastAcq, decoded, snap, wrFailed, nIter, pix, gui>>
  /\ UNCHANGED <<blob, processed, located>>
  /\ UNCHANGED <<calVars, roiVars, kalVars, irVars>>

\* cvLoad of the four camera model files, with the four NULL tests of main()
LoadCameraModel(okA, okK, okR, okT) ==
  /\ pc = "load"
  /\ \/ /\ ~okA
        /\ loaded' = NothingLoaded
        /\ Return(-EBADF)
     \/ /\ okA /\ ~okK
        /\ loaded' = [NothingLoaded EXCEPT !.intrinsic = TRUE]
        /\ Return(-EBADF)
     \/ /\ okA /\ okK /\ ~okR
        /\ loaded' = [NothingLoaded EXCEPT !.intrinsic = TRUE, !.distortion = TRUE]
        /\ Return(-EBADF)
     \/ /\ okA /\ okK /\ okR
        \* trans is loaded, and rot is tested again
        /\ loaded' = [intrinsic |-> TRUE, distortion |-> TRUE, rot |-> TRUE,
                      trans |-> okT]
        /\ Goto("alloc")
  /\ UNCHANGED <<kb, img_nr, cur_roi, ts, rc, wins, hwRoi, lastEmit, nEmit,
                 nProj, steps, cause, prev_img_nr, lastAcq, decoded, snap,
                 wrFailed, nIter, pix, gui>>
  /\ UNCHANGED <<blob, processed, located>>
  /\ UNCHANGED <<calVars, roiVars, kalVars, irVars>>

\* cvCreateMat of world, normalized, distorted
CreateMats(ok) ==
  /\ pc = "alloc"
  /\ IF ok THEN Goto("prio") ELSE Return(-ENOMEM)
  /\ UNCHANGED <<loaded, kb, img_nr, cur_roi, ts, rc, wins, hwRoi, lastEmit,
                 nEmit, nProj, steps, cause, prev_img_nr, lastAcq, decoded,
                 snap, wrFailed, nIter, pix, gui>>
  /\ UNCHANGED <<blob, processed, located>>
  /\ UNCHANGED <<calVars, roiVars, kalVars, irVars>>

\* SetPriorityClass, SetThreadPriority
SetPriority(err) ==
  /\ pc = "prio"
  /\ IF err = 0 THEN Goto("comm") ELSE Return(err)
  /\ rc' = IF err = 0 THEN 1 ELSE 0
  /\ UNCHANGED <<loaded, kb, img_nr, cur_roi, ts, wins, hwRoi, lastEmit,
                 nEmit, nProj, steps, cause, prev_img_nr, lastAcq, decoded,
                 snap, wrFailed, nIter, pix, gui>>
  /\ UNCHANGED <<blob, processed, located>>
  /\ UNCHANGED <<calVars, roiVars, kalVars, irVars>>

\* open_comm(PORT)
OpenComm(r) ==
  /\ pc = "comm"
  /\ rc' = r
  /\ IF r = FG_OK THEN Goto("initwins") ELSE Return(r)
  /\ UNCHANGED <<loaded, kb, img_nr, cur_roi, ts, wins, hwRoi, lastEmit,
                 nEmit, nProj, steps, cause, prev_img_nr, lastAcq, decoded,
                 snap, wrFailed, nIter, pix, gui>>
  /\ UNCHANGED <<blob, processed, located>>
  /\ UNCHANGED <<calVars, roiVars, kalVars, irVars>>

\* memset(&wins, 0, ...); set_initial_positions(wins.windows)
SetInitialPositions ==
  /\ pc = "initwins"
  /\ wins' = set_initial_positions([i \in RoiIds |-> ZeroWindow])
  /\ snap' = wins'
  /\ Goto("initcam")
  /\ UNCHANGED <<loaded, kb, img_nr, cur_roi, ts, rc, hwRoi, lastEmit, nEmit,
                 nProj, steps, cause, prev_img_nr, lastAcq, decoded, wrFailed,
                 nIter, pix, gui>>
  /\ UNCHANGED <<blob, processed, located>>
  /\ UNCHANGED <<calVars, roiVars, kalVars, irVars>>

\* init_cam(...)
InitCam(r) ==
  /\ pc = "initcam"
  /\ rc' = r
  /\ IF r = FG_OK THEN Goto("acquire") ELSE Return(r)
  /\ UNCHANGED <<loaded, kb, img_nr, cur_roi, ts, wins, hwRoi, lastEmit,
                 nEmit, nProj, steps, cause, prev_img_nr, lastAcq, decoded,
                 snap, wrFailed, nIter, pix, gui>>
  /\ UNCHANGED <<blob, processed, located>>
  /\ UNCHANGED <<calVars, roiVars, kalVars, irVars>>

\* acquire_imgs(...): also writes the buffered ROIs to the camera
AcquireImgs(r) ==
  /\ pc = "acquire"
  /\ rc' = r
  /\ IF r = FG_OK
       THEN /\ Goto("params")
            /\ hwRoi' = [i \in RoiIds |->
                           IF i \in Configured THEN RoiOf(wins[i]) ELSE NoRoi]
       ELSE /\ Return(r)
            /\ UNCHANGED hwRoi
  /\ UNCHANGED <<loaded, kb, img_nr, cur_roi, ts, wins, lastEmit, nEmit,
                 nProj, steps, cause, prev_img_nr, lastAcq, decoded, snap,
                 wrFailed, nIter, pix, gui>>
  /\ UNCHANGED <<blob, processed, located>>
  /\ UNCHANGED <<calVars, roiVars, kalVars, irVars>>

\* accum = 0; img_nr = 1; z = CV_MAT_ELEM(*trans, float, 2, 0): with trans
\* NULL the read is undefined, the process dies or goes on with a garbage z
InitParams ==
  /\ pc = "params"
  /\ \/ /\ Goto("poll")
        /\ img_nr' = 1
     \/ /\ ~loaded.trans
        /\ Crash
        /\ UNCHANGED img_nr
  /\ UNCHANGED <<loaded, kb, cur_roi, ts, rc, wins, hwRoi, lastEmit, nEmit,
                 nProj, steps, cause, prev_img_nr, lastAcq, decoded, snap,
                 wrFailed, nIter, pix, gui>>
  /\ UNCHANGED <<blob, processed, located>>
  /\ UNCHANGED <<calVars, roiVars, kalVars, irVars>>

\* frame numbers Fg_getLastPicNumberBlocking may return when asked for n:
\* frame n, or a later one when frames were lost
Skips == {0, 1}

\* _kbhit() && _getch() == 'q': the oldest unread key is the quit key
QuitKeyNext(keys) == keys # << >> /\ Head(keys) = "q"

\* while(!(_kbhit() && _getch() == 'q')): one test of the loop condition;
\* _getch() takes the oldest unread key off the console when there is one
PollQuit ==
  /\ pc = "poll"
  /\ kb' = IF kb = << >> THEN kb ELSE Tail(kb)
  /\ blob' = "none"
  /\ UNCHANGED <<processed, located>>
  /\ IF QuitKeyNext(kb)
       THEN /\ Break("quit")
            /\ UNCHANGED <<steps, snap, lastAcq, decoded, wrFailed, nIter>>
       ELSE /\ Goto("grab")
            /\ steps' = <<>>
            /\ snap' = wins
            /\ lastAcq' = "none"
            /\ decoded' = FALSE
            /\ wrFailed' = FALSE
            /\ nIter' = nIter + 1
            /\ UNCHANGED cause
  /\ UNCHANGED <<loaded, img_nr, cur_roi, ts, rc, wins, hwRoi, lastEmit,
                 nEmit, nProj, prev_img_nr, pix, gui>>
  /\ UNCHANGED <<calVars, roiVars, kalVars, irVars>>

\* img_nr = Fg_getLastPicNumberBlocking(fg, img_nr, PORT_A, TIMEOUT): r is the
\* frame number or a negative error code, stored into the unsigned img_nr
GetLastPicNumber(r) ==
  /\ pc = "grab"
  /\ IsFrameCount(img_nr) /\ img_nr <= MaxFrames
  /\ prev_img_nr' = img_nr
  /\ img_nr' = r
  /\ lastAcq' = IF r < FG_OK THEN "timeout" ELSE "frame"
  /\ Goto("tag")
  /\ UNCHANGED <<loaded, kb, cur_roi, ts, rc, wins, hwRoi, lastEmit, nEmit,
                 nProj, steps, cause, decoded, snap, wrFailed, nIter, pix, gui>>
  /\ UNCHANGED <<blob, processed, located>>
  /\ UNCHANGED <<calVars, roiVars, kalVars, irVars>>

\* cur_roi = img_nr; rc = Fg_getParameter(fg, FG_IMAGE_TAG, &cur_roi, PORT_A)
GetImageTag(r, id) ==
  /\ pc = "tag"
  /\ rc' = r
  /\ IF r = FG_OK
       THEN /\ cur_roi' = TagOf(id, img_nr % (2 ^ TAG_SHIFT))
            /\ Goto("ts")
            /\ UNCHANGED cause
       ELSE /\ cur_roi' = img_nr
            /\ Break("tag")
  /\ UNCHANGED <<loaded, kb, img_nr, ts, wins, hwRoi, lastEmit, nEmit, nProj,
                 steps, prev_img_nr, lastAcq, decoded, snap, wrFailed, nIter,
                 pix, gui>>
  /\ UNCHANGED <<blob, processed, located>>
  /\ UNCHANGED <<calVars, roiVars, kalVars, irVars>>

\* timestamp the frame grabber reports for frame n
TimestampOf(nr) == nr * FRAME_TIME

\* ts = img_nr; rc = Fg_getParameter(fg, FG_TIMESTAMP, &ts, PORT_A)
GetTimestamp(r) ==
  /\ pc = "ts"
  /\ rc' = r
  /\ IF r = FG_OK
       THEN /\ ts' = TimestampOf(img_nr)
            /\ Goto("imgptr")
            /\ UNCHANGED cause
       ELSE /\ ts' = img_nr
            /\ Break("ts")
  /\ UNCHANGED <<loaded, kb, img_nr, cur_roi, wins, hwRoi, lastEmit, nEmit,
                 nProj, steps, prev_img_nr, lastAcq, decoded, snap, wrFailed,
                 nIter, pix, gui>>
  /\ UNCHANGED <<blob, processed, located>>
  /\ UNCHANGED <<calVars, roiVars, kalVars, irVars>>

\* cur_roi = cur_roi >> 16; cur = &(wins.windows[cur_roi]);
\* cur->img = Fg_getImagePtr(...); if(cur->img != NULL) ... else break
GetImagePtr(ptrOk) ==
  /\ pc = "imgptr"
  /\ cur_roi' = RoiIdOfTag(cur_roi)
  /\ decoded' = TRUE
  /\ wins' = [wins EXCEPT ![cur_roi'].img = IF ptrOk THEN img_nr ELSE 0]
  /\ IF ptrOk
       THEN Goto("locate") /\ UNCHANGED cause
       ELSE Break("null")
  /\ UNCHANGED <<loaded, kb, img_nr, ts, rc, hwRoi, lastEmit, nEmit, nProj,
                 steps, prev_img_nr, lastAcq, snap, wrFailed, nIter, pix, gui>>
  /\ UNCHANGED <<blob, processed, located>>
  /\ UNCHANGED <<calVars, roiVars, kalVars, irVars>>

\* ThresholdErode followed by write_roi instead of position
ThresholdErode_ThenWriteRoi ==
  /\ pc = "locate"
  /\ steps' = Append(steps, "locate")
  /\ Goto("write_roi")
  /\ UNCHANGED <<loaded, kb, img_nr, cur_roi, ts, rc, wins, hwRoi, lastEmit,
                 nEmit, nProj, cause, prev_img_nr, lastAcq, decoded, snap,
                 wrFailed, nIter, pix, gui>>
  /\ UNCHANGED <<blob, processed, located>>
  /\ UNCHANGED <<calVars, roiVars, kalVars, irVars>>

\* threshold(cur, THRESHOLD); erode(cur): the ROI image is processed in place
ThresholdErode ==
  /\ pc = "locate"
  /\ steps' = Append(steps, "locate")
  /\ Goto("position")
  /\ UNCHANGED <<loaded, kb, img_nr, cur_roi, ts, rc, wins, hwRoi, lastEmit,
                 nEmit, nProj, cause, prev_img_nr, lastAcq, decoded, snap,
                 wrFailed, nIter, pix, gui>>
  /\ UNCHANGED <<blob, processed, located>>
  /\ UNCHANGED <<calVars, roiVars, kalVars, irVars>>

\* Position on window 0 whatever the tag says
Position_FirstWindow(box) ==
  /\ pc = "position"
  /\ wins' = [wins EXCEPT ![0] = position(@, box).win]
  /\ steps' = Append(steps, "recenter")
  /\ Goto("write_roi")
  /\ UNCHANGED <<loaded, kb, img_nr, cur_roi, ts, rc, hwRoi, lastEmit, nEmit,
                 nProj, cause, prev_img_nr, lastAcq, decoded, snap, wrFailed,
                 nIter, pix, gui>>
  /\ blob' = IF position(wins[cur_roi], box).found THEN "found" ELSE "missing"
  /\ located' = BoxCentre2(blob_in_image(locate(wins[cur_roi], box).win))
  /\ UNCHANGED processed
  /\ UNCHANGED <<calVars, roiVars, kalVars, irVars>>

\* position(cur);  box is the blob the processed image shows, and what
\* position() returns is not looked at
Position(box) ==
  /\ pc = "position"
  /\ wins' = [wins EXCEPT ![cur_roi] = position(@, box).win]
  /\ steps' = Append(steps, "recenter")
  /\ Goto("write_roi")
  /\ UNCHANGED <<loaded, kb, img_nr, cur_roi, ts, rc, hwRoi, lastEmit, nEmit,
                 nProj, cause, prev_img_nr, lastAcq, decoded, snap, wrFailed,
                 nIter, pix, gui>>
  /\ blob' = IF position(wins[cur_roi], box).found THEN "found" ELSE "missing"
  /\ located' = BoxCentre2(blob_in_image(locate(wins[cur_roi], box).win))
  /\ UNCHANGED processed
  /\ UNCHANGED <<calVars, roiVars, kalVars, irVars>>

\* write_roi(fg, cur->roi, cur->roi, !DO_INIT); its result is not looked at
WriteRoi(ok) ==
  /\ pc = "write_roi"
  /\ IF ok
       THEN /\ hwRoi' = [hwRoi EXCEPT ![wins[cur_roi].roi] = RoiOf(wins[cur_roi])]
            /\ UNCHANGED wrFailed
       ELSE /\ wrFailed' = TRUE
            /\ UNCHANGED hwRoi
  /\ steps' = Append(steps, "write_roi")
  /\ Goto("convert")
  /\ UNCHANGED <<loaded, kb, img_nr, cur_roi, ts, rc, wins, lastEmit, nEmit,
                 nProj, cause, prev_img_nr, lastAcq, decoded, snap, nIter,
                 pix, gui>>
  /\ UNCHANGED <<blob, processed, located>>
  /\ UNCHANGED <<calVars, roiVars, kalVars, irVars>>

\* a conversion step that looks at the keyboard and leaves the loop on 'q'
Convert_PollingQuit ==
  /\ pc = "convert"
  /\ pix' = <<PixelX2(wins[cur_roi]), PixelY2(wins[cur_roi])>>
  /\ nProj' = nProj + 1
  /\ steps' = Append(steps, "convert")
  /\ IF QuitKeyNext(kb) THEN Break("quit") ELSE Goto("emit") /\ UNCHANGED cause
  /\ UNCHANGED <<loaded, kb, img_nr, cur_roi, ts, rc, wins, hwRoi, lastEmit,
                 nEmit, prev_img_nr, lastAcq, decoded, snap, wrFailed,
                 nIter, gui>>
  /\ UNCHANGED <<blob, processed, located>>
  /\ UNCHANGED <<calVars, roiVars, kalVars, irVars>>

\* distorted = roi offset + blob centre; cvUndistortPoints; scale by z;
\* cvSub(world, trans, world); cvGEMM(rot, world, ...): with trans NULL the
\* process dies or goes on
Convert ==
  /\ pc = "convert"
  /\ pix' = <<PixelX2(wins[cur_roi]), PixelY2(wins[cur_roi])>>
  /\ nProj' = nProj + 1
  /\ steps' = Append(steps, "convert")
  /\ \/ Goto("emit")
     \/ ~loaded.trans /\ Crash
  /\ UNCHANGED <<loaded, kb, img_nr, cur_roi, ts, rc, wins, hwRoi, lastEmit,
                 nEmit, cause, prev_img_nr, lastAcq, decoded, snap, wrFailed,
                 nIter, gui>>
  /\ UNCHANGED <<blob, processed, located>>
  /\ UNCHANGED <<calVars, roiVars, kalVars, irVars>>

\* rc = write_comm(cur_roi, x, y, ts); if(rc != FG_OK) break
WriteComm(r) ==
  /\ pc = "emit"
  /\ rc' = r
  /\ steps' = Append(steps, "emit")
  /\ IF r = FG_OK
       THEN /\ lastEmit' = [roi |-> cur_roi, px2 |-> pix[1], py2 |-> pix[2],
                            ts |-> ts]
            /\ nEmit' = nEmit + 1
            /\ Goto("display")
            /\ UNCHANGED cause
       ELSE /\ Break("comm")
            /\ UNCHANGED <<lastEmit, nEmit>>
  /\ UNCHANGED <<loaded, kb, img_nr, cur_roi, ts, wins, hwRoi, nProj,
                 prev_img_nr, lastAcq, decoded, snap, wrFailed, nIter, pix, gui>>
  /\ UNCHANGED <<blob, processed, located>>
  /\ UNCHANGED <<calVars, roiVars, kalVars, irVars>>

\* display_tracking(cur, gui, name): gui->imageData = cur->img
display_tracking(g, cur, k) == [g EXCEPT ![k] = cur.img]

\* if(cur_roi == ROI_0) display_tracking(cur, cvDisplay0, ...) else
\* display_tracking(cur, cvDisplay1, ...)
Display ==
  /\ pc = "display"
  /\ gui' = display_tracking(gui, wins[cur_roi], IF cur_roi = 0 THEN 1 ELSE 2)
  /\ Goto("advance")
  /\ UNCHANGED <<loaded, kb, img_nr, cur_roi, ts, rc, wins, hwRoi, lastEmit,
                 nEmit, nProj, steps, cause, prev_img_nr, lastAcq, decoded,
                 snap, wrFailed, nIter, pix>>
  /\ UNCHANGED <<blob, processed, located>>
  /\ UNCHANGED <<calVars, roiVars, kalVars, irVars>>

\* the end of an iteration that leaves the expected frame number as it is
Advance_SameFrame ==
  /\ pc = "advance"
  /\ img_nr' = img_nr
  /\ steps' = Append(steps, "advance")
  /\ Goto("poll")
  /\ UNCHANGED <<loaded, kb, cur_roi, ts, rc, wins, hwRoi, lastEmit, nEmit,
                 nProj, cause, prev_img_nr, lastAcq, decoded, snap, wrFailed,
                 nIter, pix, gui>>
  /\ processed' = Append(processed, img_nr)
  /\ UNCHANGED <<blob, located>>
  /\ UNCHANGED <<calVars, roiVars, kalVars, irVars>>

\* img_nr += NEXT_IMAGE, then back to the loop condition
Advance ==
  /\ pc = "advance"
  /\ img_nr' = img_nr + NEXT_IMAGE
  /\ steps' = Append(steps, "advance")
  /\ Goto("poll")
  /\ UNCHANGED <<loaded, kb, cur_roi, ts, rc, wins, hwRoi, lastEmit, nEmit,
                 nProj, cause, prev_img_nr, lastAcq, decoded, snap, wrFailed,
                 nIter, pix, gui>>
  /\ processed' = Append(processed, img_nr)
  /\ UNCHANGED <<blob, located>>
  /\ UNCHANGED <<calVars, roiVars, kalVars, irVars>>

\* after the loop: rc = deinit_cam(fg); if(rc != FG_OK) return rc;
\* close_comm(); return FG_OK
DeinitCam(r) ==
  /\ pc = "deinit"
  /\ rc' = r
  /\ IF r = FG_OK THEN Return(FG_OK) ELSE Return(r)
  /\ UNCHANGED <<loaded, kb, img_nr, cur_roi, ts, wins, hwRoi, lastEmit,
                 nEmit, nProj, steps, cause, prev_img_nr, lastAcq, decoded,
                 snap, wrFailed, nIter, pix, gui>>
  /\ UNCHANGED <<blob, processed, located>>
  /\ UNCHANGED <<calVars, roiVars, kalVars, irVars>>

FgResults == {FG_OK} \cup FgErrCodes

MainNext ==
  \/ \E k \in Keys : KeyPress(k)
  \/ \E okA, okK, okR, okT \in BOOLEAN : LoadCameraModel(okA, okK, okR, okT)
  \/ \E ok \in BOOLEAN : CreateMats(ok)
  \/ \E e \in {0} \cup WinErrCodes : SetPriority(e)
  \/ \E r \in FgResults : OpenComm(r)
  \/ SetInitialPositions
  \/ \E r \in FgResults : InitCam(r)
  \/ \E r \in FgResults : AcquireImgs(r)
  \/ InitParams
  \/ PollQuit
  \/ \E r \in {img_nr + d : d \in Skips} \cup FgErrCodes : GetLastPicNumber(r)
  \/ \E r \in FgResults, id \in 0 .. MaxTagId : GetImageTag(r, id)
  \/ \E r \in FgResults : GetTimestamp(r)
  \/ \E ok \in BOOLEAN : GetImagePtr(ok)
  \/ ThresholdErode
  \/ \E box \in BlobBoxes \cup {NoBlob} : Position(box)
  \/ \E ok \in BOOLEAN : WriteRoi(ok)
  \/ Convert
  \/ \E r \in FgResults : WriteComm(r)
  \/ Display
  \/ Advance
  \/ \E r \in FgResults : DeinitCam(r)

(***************************************************************************)
(* Chessboard view collection: Calibration::getChessboardViews and         *)
(* grab_calib_grid                                                         *)
(***************************************************************************)
CalKeys == {"none", "i", "q", "x"}
num_points == GridRows * GridCols
NoViews == [pixel |-> <<>>, world |-> <<>>, chessboards |-> <<>>]

\* !CV_OK
NotCvOk == IF CV_OK = 0 THEN 1 ELSE 0

\* world_loc of getChessboardViews: x = i % cols, y = -i / cols
world_loc ==
  [i \in 0 .. (num_points - 1) |->
     [x |-> i % GridCols, y |-> CDiv(-i, GridCols), z |-> 0]]

\* rows of op written by grab_calib_grid for one view:
\* column 0 = i / cols, column 1 = i % cols, column 2 = 0
object_rows ==
  [i \in 0 .. (num_points - 1) |->
     [x |-> CDiv(i, GridCols), y |-> i % GridCols, z |-> 0]]

NoRows == [i \in 0 .. (num_points - 1) |-> [x |-> 0, y |-> 0, z |-> 0]]

BoolSeqs(len) == UNION {[1 .. k -> BOOLEAN] : k \in 0 .. len}

\* no view collection is running (the tracking program)
CalIdle ==
  /\ routine = "none"
  /\ c_pc = "done"
  /\ src = <<>>
  /\ rd = 0
  /\ n = 0
  /\ prompt = FALSE
  /\ save_views = FALSE
  /\ good_imgs = 0
  /\ views = NoViews
  /\ ip = <<>>
  /\ op = <<>>
  /\ pcnt = <<>>
  /\ store_imgs = <<>>
  /\ maxRow = -1
  /\ ret = 0
  /\ kept = 0
  /\ lastKey = "none"
  /\ errRet = FALSE
  /\ gci_pc = "none"
  /\ gci_ret = 0
  /\ persisted = FALSE

\* entry of one of the two routines, with buffers of n views preallocated
CalInit ==
  /\ routine \in {"views", "grid", "intrinsics"}
  /\ c_pc = IF routine = "grid" THEN "start"
            ELSE IF routine = "intrinsics" THEN "idle" ELSE "loop"
  /\ src \in BoolSeqs(MaxSrcLen)
  /\ rd = 0
  /\ n \in 0 .. MaxViews
  /\ routine = "intrinsics" => n > 0
  /\ prompt \in BOOLEAN
  /\ save_views \in BOOLEAN
  /\ routine = "intrinsics" => ~save_views
  /\ good_imgs = 0
  /\ views = NoViews
  /\ ip = [k \in 1 .. n |-> 0]
  /\ op = [k \in 1 .. n |-> NoRows]
  /\ pcnt = [k \in 1 .. n |-> 0]
  /\ store_imgs = [k \in 1 .. n |-> 0]
  /\ maxRow = -1
  /\ ret = 0
  /\ kept = 0
  /\ lastKey = "none"
  /\ errRet = FALSE
  /\ gci_pc = IF routine = "intrinsics" THEN "start" ELSE "none"
  /\ gci_ret = 0
  /\ persisted = FALSE

CalReturn(v) ==
  /\ c_pc' = "done"
  /\ ret' = v
  /\ UNCHANGED errRet

\* return !CV_OK or -ENOMEM before the loop
CalError(v) ==
  /\ c_pc' = "done"
  /\ ret' = v
  /\ errRet' = TRUE

\* getChessboardViews: a pass of while(good_imgs < n) up to its call of
\* cv::waitKey: the frame is read, a view with a board is stored and
\* counted, the image is shown
GetChessboardViewsIter ==
  /\ routine = "views"
  /\ c_pc = "loop"
  /\ good_imgs < n
  /\ IF rd = Len(src)
       THEN \* cam >> img; if(img.empty()) break;
            /\ CalReturn(good_imgs)
            /\ UNCHANGED <<rd, good_imgs, views>>
       ELSE LET frame == rd + 1
                chssbd_found == src[frame]
            IN  /\ rd' = frame
                /\ views' =
                     IF chssbd_found
                       THEN [pixel |-> Append(views.pixel, frame),
                             world |-> Append(views.world, world_loc),
                             chessboards |->
                               IF save_views
                                 THEN Append(views.chessboards, frame)
                                 ELSE views.chessboards]
                       ELSE views
                /\ good_imgs' = IF chssbd_found THEN good_imgs + 1 ELSE good_imgs
                /\ c_pc' = "wait"
                /\ UNCHANGED <<ret, errRet>>
  /\ UNCHANGED <<routine, src, n, prompt, save_views, ip, op, pcnt, store_imgs,
                 maxRow, kept, lastKey>>
  /\ UNCHANGED <<mainVars, roiVars, kalVars, irVars, gciVars>>

\* getChessboardViews: cv::waitKey returns key for the frame just shown and
\* the pass ends: 'i' uncounts the view, 'q' leaves the loop
GetChessboardViewsWaitKey(key) ==
  /\ routine = "views"
  /\ c_pc = "wait"
  /\ lastKey' = key
  /\ LET chssbd_found == src[rd]
     IN  IF chssbd_found /\ prompt
           THEN \* kb_input = cv::waitKey(0)
                /\ key # "none"
                /\ IF key = "i"
                     THEN /\ good_imgs' = good_imgs - 1
                          /\ kept' = kept
                          /\ c_pc' = "loop"
                          /\ UNCHANGED <<ret, errRet>>
                     ELSE /\ UNCHANGED good_imgs
                          /\ kept' = kept + 1
                          /\ IF key = "q"
                               THEN CalReturn(good_imgs)
                               ELSE c_pc' = "loop" /\ UNCHANGED <<ret, errRet>>
           ELSE \* else if(cv::waitKey(5) == 'q') break;
                /\ UNCHANGED good_imgs
                /\ kept' = IF chssbd_found THEN kept + 1 ELSE kept
                /\ IF key = "q"
                     THEN CalReturn(good_imgs)
                     ELSE c_pc' = "loop" /\ UNCHANGED <<ret, errRet>>
  /\ UNCHANGED <<routine, src, rd, n, prompt, save_views, views, ip, op, pcnt,
                 store_imgs, maxRow>>
  /\ UNCHANGED <<mainVars, roiVars, kalVars, irVars, gciVars>>

\* getChessboardViews: the loop condition fails; return good_imgs
GetChessboardViewsReturn ==
  /\ routine = "views"
  /\ c_pc = "loop"
  /\ ~(good_imgs < n)
  /\ CalReturn(good_imgs)
  /\ UNCHANGED <<routine, src, rd, n, prompt, save_views, good_imgs, views, ip,
                 op, pcnt, store_imgs, maxRow, kept, lastKey>>
  /\ UNCHANGED <<mainVars, roiVars, kalVars, irVars, gciVars>>

\* grab_calib_grid before its loop: the first frame is read to size the gray
\* image, then gray and corners are allocated
GrabCalibGridStart(okGray, okCorners) ==
  /\ routine \in GridCallers
  /\ c_pc = "start"
  /\ IF rd = Len(src)
       THEN CalError(NotCvOk) /\ UNCHANGED rd
       ELSE /\ rd' = rd + 1
            /\ IF ~okGray THEN CalError(NotCvOk)
               ELSE IF ~okCorners THEN CalError(-ENOMEM)
               ELSE c_pc' = "loop" /\ UNCHANGED <<ret, errRet>>
  /\ UNCHANGED <<routine, src, n, prompt, save_views, good_imgs, views, ip, op,
                 pcnt, store_imgs, maxRow, kept, lastKey>>
  /\ UNCHANGED <<mainVars, roiVars, kalVars, irVars, gciVars>>

\* a pass of the loop under the condition good_imgs <= num_imgs
GrabCalibGridIter_OneMore ==
  /\ routine \in GridCallers
  /\ c_pc = "loop"
  /\ good_imgs <= n
  /\ IF rd = Len(src)
       THEN \* img = cvQueryFrame(capture); if(img == NULL) break;
            /\ CalReturn(good_imgs)
            /\ UNCHANGED <<rd, good_imgs, ip, op, pcnt, store_imgs, maxRow>>
       ELSE LET frame == rd + 1
                found == src[frame]
                slot == good_imgs + 1
                row0 == good_imgs * num_points
            IN  /\ rd' = frame
                /\ IF found
                     THEN /\ pcnt' = [pcnt EXCEPT ![slot] = num_points]
                          /\ ip' = [ip EXCEPT ![slot] = frame]
                          /\ op' = [op EXCEPT ![slot] = object_rows]
                          /\ maxRow' = Max(maxRow, row0 + num_points - 1)
                          /\ store_imgs' =
                               IF save_views
                                 THEN [store_imgs EXCEPT ![slot] = frame]
                                 ELSE store_imgs
                          /\ good_imgs' = good_imgs + 1
                     ELSE UNCHANGED <<pcnt, ip, op, maxRow, store_imgs,
                                      good_imgs>>
                /\ c_pc' = "wait"
                /\ UNCHANGED <<ret, errRet>>
  /\ UNCHANGED <<routine, src, n, prompt, save_views, views, kept, lastKey>>
  /\ UNCHANGED <<mainVars, roiVars, kalVars, irVars, gciVars>>

\* grab_calib_grid: a pass of while(good_imgs < num_imgs) up to its call
\* of cvWaitKey: the frame is read, a view with a board is written to the
\* slot good_imgs and counted, the image is shown
GrabCalibGridIter ==
  /\ routine \in GridCallers
  /\ c_pc = "loop"
  /\ good_imgs < n
  /\ IF rd = Len(src)
       THEN \* img = cvQueryFrame(capture); if(img == NULL) break;
            /\ CalReturn(good_imgs)
            /\ UNCHANGED <<rd, good_imgs, ip, op, pcnt, store_imgs, maxRow>>
       ELSE LET frame == rd + 1
                found == src[frame]
                slot == good_imgs + 1
                row0 == good_imgs * num_points
            IN  /\ rd' = frame
                /\ IF found
                     THEN /\ pcnt' = [pcnt EXCEPT ![slot] = num_points]
                          /\ ip' = [ip EXCEPT ![slot] = frame]
                          /\ op' = [op EXCEPT ![slot] = object_rows]
                          /\ maxRow' = Max(maxRow, row0 + num_points - 1)
                          /\ store_imgs' =
                               IF save_views
                                 THEN [store_imgs EXCEPT ![slot] = frame]
                                 ELSE store_imgs
                          /\ good_imgs' = good_imgs + 1
                     ELSE UNCHANGED <<pcnt, ip, op, maxRow, store_imgs,
                                      good_imgs>>
                /\ c_pc' = "wait"
                /\ UNCHANGED <<ret, errRet>>
  /\ UNCHANGED <<routine, src, n, prompt, save_views, views, kept, lastKey>>
  /\ UNCHANGED <<mainVars, roiVars, kalVars, irVars, gciVars>>

\* grab_calib_grid: cvWaitKey returns key for the frame just shown and the
\* pass ends: with prompting 'i' uncounts the view, without it 'q' leaves
\* the loop
GrabCalibGridWaitKey(key) ==
  /\ routine \in GridCallers
  /\ c_pc = "wait"
  /\ lastKey' = key
  /\ LET found == src[rd]
     IN  IF found /\ prompt
           THEN \* kb_input = cvWaitKey(0)
                /\ key # "none"
                /\ good_imgs' = IF key = "i" THEN good_imgs - 1 ELSE good_imgs
                /\ kept' = IF key = "i" THEN kept ELSE kept + 1
                /\ c_pc' = "loop"
                /\ UNCHANGED <<ret, errRet>>
           ELSE \* kb_input = cvWaitKey(1); if(kb_input == 'q') break;
                /\ UNCHANGED good_imgs
                /\ kept' = IF found THEN kept + 1 ELSE kept
                /\ IF key = "q"
                     THEN CalReturn(good_imgs)
                     ELSE c_pc' = "loop" /\ UNCHANGED <<ret, errRet>>
  /\ UNCHANGED <<routine, src, rd, n, prompt, save_views, views, ip, op, pcnt,
                 store_imgs, maxRow>>
  /\ UNCHANGED <<mainVars, roiVars, kalVars, irVars, gciVars>>

\* grab_calib_grid: the loop condition fails; return good_imgs
GrabCalibGridReturn ==
  /\ routine \in GridCallers
  /\ c_pc = "loop"
  /\ ~(good_imgs < n)
  /\ CalReturn(good_imgs)
  /\ UNCHANGED <<routine, src, rd, n, prompt, save_views, good_imgs, views, ip,
                 op, pcnt, store_imgs, maxRow, kept, lastKey>>
  /\ UNCHANGED <<mainVars, roiVars, kalVars, irVars, gciVars>>

\* get_camera_intrinsics up to its call of grab_calib_grid: the buffers of
\* num_images views are allocated and one frame is read for the image size;
\* with no frame cvGetSize(NULL) is undefined: the process dies or goes on
GetCameraIntrinsicsStart ==
  /\ routine = "intrinsics"
  /\ gci_pc = "start"
  /\ IF rd = Len(src)
       THEN /\ \/ gci_pc' = "crashed" /\ UNCHANGED c_pc
               \/ gci_pc' = "grab" /\ c_pc' = "start"
            /\ UNCHANGED rd
       ELSE /\ rd' = rd + 1
            /\ gci_pc' = "grab"
            /\ c_pc' = "start"
  /\ UNCHANGED <<routine, src, n, prompt, save_views, good_imgs, views, ip, op,
                 pcnt, store_imgs, maxRow, ret, kept, lastKey, errRet, gci_ret,
                 persisted>>
  /\ UNCHANGED <<mainVars, roiVars, kalVars, irVars>>

\* get_camera_intrinsics after grab_calib_grid has returned rc:
\* if(rc != num_images) return -rc; otherwise calibrate, save, return CV_OK
GetCameraIntrinsicsFinish ==
  /\ routine = "intrinsics"
  /\ gci_pc = "grab"
  /\ c_pc = "done"
  /\ gci_pc' = "done"
  /\ IF ret # n
       THEN /\ gci_ret' = -ret
            /\ UNCHANGED persisted
       ELSE /\ gci_ret' = CV_OK
            /\ persisted' = TRUE
  /\ UNCHANGED <<routine, c_pc, src, rd, n, prompt, save_views, good_imgs,
                 views, ip, op, pcnt, store_imgs, maxRow, ret, kept, lastKey,
                 errRet>>
  /\ UNCHANGED <<mainVars, roiVars, kalVars, irVars>>

CalNext ==
  \/ GetChessboardViewsIter
  \/ \E key \in CalKeys : GetChessboardViewsWaitKey(key)
  \/ GetChessboardViewsReturn
  \/ \E okGray, okCorners \in BOOLEAN : GrabCalibGridStart(okGray, okCorners)
  \/ GrabCalibGridIter
  \/ \E key \in CalKeys : GrabCalibGridWaitKey(key)
  \/ GrabCalibGridReturn
  \/ GetCameraIntrinsicsStart
  \/ GetCameraIntrinsicsFinish

(***************************************************************************)
(* Recentering of a window that tracking has brought anywhere on the       *)
(* sensor                                                                  *)
(***************************************************************************)
InitialWindows == {set_initial_positions([j \in RoiIds |-> ZeroWindow])[i] :
                     i \in Configured}

\* ROI corners next to and on the borders of the sensor
EdgeX == {0, 4, IMG_WIDTH - ROI_BOX - 4, IMG_WIDTH - ROI_BOX}
EdgeY == {0, 1, IMG_HEIGHT - ROI_BOX - 1, IMG_HEIGHT - ROI_BOX}

\* the window w after tracking has moved its ROI to (x, y)
MovedWindow(w, x, y) == [w EXCEPT !.roi_xoff = x, !.roi_yoff = y]

TrackedWindows ==
  InitialWindows \cup
    {MovedWindow(w, x, y) : w \in InitialWindows, x \in EdgeX, y \in EdgeY}

RoiIdle ==
  /\ track_win = ZeroWindow
  /\ nRec = 0

RoiInit ==
  /\ track_win \in TrackedWindows
  /\ nRec = 0

\* position(cur) on the window, box being the blob its image shows
Recenter(box) ==
  /\ nRec < MaxRecenter
  /\ track_win' = position(track_win, box).win
  /\ nRec' = nRec + 1
  /\ UNCHANGED <<mainVars, calVars, kalVars, irVars>>

RoiNext == \E box \in BlobBoxes \cup {NoBlob} : Recenter(box)

(***************************************************************************)
(* Specifications                                                          *)
(***************************************************************************)

\* ---- xtal_ball.cpp: prediction and setup_kalman ----
\* The floats of the filter are fixed-point integers: FIX stands for 1.0,
\* so that the measurement noise 1e-5 is 1, the process noise 1e-1 is
\* FIX / 10 and GRAVITY 9.8f is 98 * (FIX / 10); dt is a whole number.
FIX == 100000
GRAVITY_X10 == 98
X_DIM == 4
Z_DIM == 2
INIT_COV == 100
GRAVITY_FIX == GRAVITY_X10 * (FIX \div 10)
PROCESS_NOISE == FIX \div 10
MEASUREMENT_NOISE == FIX \div 100000

\* a NULL pointer of an array of pointers, and a NULL array
NULL == << >>
\* a NULL entry of P0; the matrix that P0[i] points to is written d for d * I
NULL_COV == 0
ZeroVec == [j \in 1 .. X_DIM |-> 0]

\* cvSetIdentity(m, s) on a matrix of the given shape
cvSetIdentity(rows, cols, s) ==
  [r \in 1 .. rows |-> [c \in 1 .. cols |-> IF r = c THEN s ELSE 0]]
\* cvZero on a matrix of the given shape
ZeroMat(rows, cols) == cvSetIdentity(rows, cols, 0)

\* cvCreateKalman: the transition matrix and the two noise covariances
\* are identities, everything else is zero
NewFilter ==
  [alloc |-> TRUE, state_pre |-> ZeroVec, state_post |-> ZeroVec,
   error_cov_pre |-> ZeroMat(X_DIM, X_DIM),
   error_cov_post |-> ZeroMat(X_DIM, X_DIM),
   transition_matrix |-> cvSetIdentity(X_DIM, X_DIM, 1),
   control_matrix |-> ZeroVec,
   measurement_matrix |-> ZeroMat(Z_DIM, X_DIM),
   process_noise_cov |-> cvSetIdentity(X_DIM, X_DIM, FIX),
   measurement_noise_cov |-> cvSetIdentity(Z_DIM, Z_DIM, FIX)]
NullFilter == [NewFilter EXCEPT !.alloc = FALSE]

\* the state and the covariance a caller supplies for filter i
StateOf(i) == <<FIX * i, 0, 0, FIX * i>>
CovOf(i) == i

\* the arrays of n pointers a caller can pass
StateArrays(cnt) ==
  {NULL} \cup {xs \in [1 .. cnt -> {NULL} \cup {StateOf(i) : i \in 1 .. cnt}] :
                 \A i \in 1 .. cnt : xs[i] \in {NULL, StateOf(i)}}
CovArrays(cnt) ==
  {NULL} \cup {Ps \in [1 .. cnt -> {NULL_COV} \cup {CovOf(i) : i \in 1 .. cnt}] :
                 \A i \in 1 .. cnt : Ps[i] \in {NULL_COV, CovOf(i)}}

A_k(dt) ==
  << <<1, 0, dt, 0>>,
     <<0, 1, 0, dt>>,
     <<0, 0, 1, 0>>,
     <<0, 0, 0, 1>> >>

B_k(dt) == <<0, (GRAVITY_FIX * dt * dt) \div 2, 0, GRAVITY_FIX * dt>>

MatVec(A, x) ==
  [r \in 1 .. X_DIM |->
     A[r][1] * x[1] + A[r][2] * x[2] + A[r][3] * x[3] + A[r][4] * x[4]]

MatMul(A, B) ==
  [r \in 1 .. X_DIM |-> [c \in 1 .. X_DIM |->
     A[r][1] * B[1][c] + A[r][2] * B[2][c] + A[r][3] * B[3][c] + A[r][4] * B[4][c]]]

Transpose(A) == [r \in 1 .. X_DIM |-> [c \in 1 .. X_DIM |-> A[c][r]]]

MatAdd(A, B) == [r \in 1 .. X_DIM |-> [c \in 1 .. X_DIM |-> A[r][c] + B[r][c]]]

\* the largest integer of the arithmetic, and the places carried by a
\* quotient: it is exact to one part in Precision
MaxInt == 2147483647
Precision == 1000000000

Abs(v) == IF v < 0 THEN 0 - v ELSE v
Sgn(v) == IF v < 0 THEN 0 - 1 ELSE 1

\* b * (r / c) for 0 <= r < c, 0 <= b, rounded: the quotient is taken one
\* place at a time, in the largest base that keeps every product inside
\* MaxInt, until todo places are done
RECURSIVE FracMul(_, _, _, _)
FracMul(r, b, c, todo) ==
  IF todo <= 1 \/ r = 0 THEN 0
  ELSE LET base == Min(todo, MaxInt \div (Max(b, c) + 1))
           d    == (base * r) \div c
           rr   == (base * r) % c
       IN  (b * d + FracMul(rr, b, c, todo \div base) + base \div 2) \div base

\* a * b / c rounded to the nearest integer, c # 0
MulDiv(a, b, c) ==
  IF a = 0 \/ b = 0 THEN 0
  ELSE Sgn(a) * Sgn(b) * Sgn(c) *
         ((Abs(a) \div Abs(c)) * Abs(b)
            + FracMul(Abs(a) % Abs(c), Abs(b), Abs(c), Precision))

\* A float the program does not determine: the copy at xtal_ball.cpp:66
\* takes the bytes of the pointer array P0 and of the memory behind it, so
\* every float of the covariance can hold any value, whatever the caller
\* supplied.  Arbitrary stands for all of these values at once, and a
\* result computed from an Arbitrary float is Arbitrary too.
Arbitrary == 0 - MaxInt
ArbitraryVec == [j \in 1 .. X_DIM |-> Arbitrary]
ArbitraryMat == [r \in 1 .. X_DIM |-> [c \in 1 .. X_DIM |-> Arbitrary]]

\* cvKalmanPredict: state_pre = A * state_post + B * u and
\* error_cov_pre = A * error_cov_post * A^T + Q
cvKalmanPredict(k, u) ==
  [k EXCEPT !.state_pre =
              IF k.state_post = ArbitraryVec THEN ArbitraryVec
              ELSE [r \in 1 .. X_DIM |->
                      MatVec(k.transition_matrix, k.state_post)[r]
                        + k.control_matrix[r] * u],
            !.error_cov_pre =
              IF k.error_cov_post = ArbitraryMat THEN ArbitraryMat
              ELSE MatAdd(MatMul(MatMul(k.transition_matrix, k.error_cov_post),
                                 Transpose(k.transition_matrix)),
                          k.process_noise_cov)]

\* the innovation covariance S = H * P' * H^T + R, with H the identity on
\* the first Z_DIM components
InnovCov(k, a, b) == k.error_cov_pre[a][b] + k.measurement_noise_cov[a][b]

\* S[2][2] - S[2][1] * S[1][2] / S[1][1], the second pivot of S
InnovPivot(k) ==
  InnovCov(k, 2, 2) - MulDiv(InnovCov(k, 2, 1), InnovCov(k, 1, 2), InnovCov(k, 1, 1))

\* row r of the gain applied to the vector y.  The library solves
\* S * K^T = H * P' and transposes, so that row r of K is inv(S) times
\* column r of H * P': with q = (P'[1][r], P'[2][r]),
\* K[r][2] = (q[2] - S[2][1] * q[1] / S[1][1]) / pivot and
\* K[r][1] = (q[1] - S[1][2] * K[r][2]) / S[1][1]; the result is
\* K[r][1] * y[1] + K[r][2] * y[2]
GainTimes(k, r, y) ==
  LET q1 == k.error_cov_pre[1][r]
      q2 == k.error_cov_pre[2][r]
      s11 == InnovCov(k, 1, 1)
      s12 == InnovCov(k, 1, 2)
      s21 == InnovCov(k, 2, 1)
      n2 == q2 - MulDiv(s21, q1, s11)
      k2y2 == MulDiv(n2, y[2], InnovPivot(k))
      k2y1 == IF s12 = 0 THEN 0 ELSE MulDiv(n2, y[1], InnovPivot(k))
      k1y1 == MulDiv(q1, y[1], s11) - MulDiv(s12, k2y1, s11)
  IN  k1y1 + k2y2

\* cvKalmanCorrect: K^T = inv(H * P' * H^T + R) * (H * P'),
\* state_post = state_pre + K * (z - H * state_pre) and
\* error_cov_post = P' - K * (H * P')
cvKalmanCorrect(k, z) ==
  LET Pp == k.error_cov_pre
      innov == [a \in 1 .. Z_DIM |-> z[a] - k.state_pre[a]]
  IN  IF Pp = ArbitraryMat
        THEN [k EXCEPT !.state_post = ArbitraryVec,
                       !.error_cov_post = ArbitraryMat]
        ELSE [k EXCEPT
                !.state_post =
                  [r \in 1 .. X_DIM |-> k.state_pre[r] + GainTimes(k, r, innov)],
                !.error_cov_post =
                  [r \in 1 .. X_DIM |-> [c \in 1 .. X_DIM |->
                     Pp[r][c] - GainTimes(k, r, <<Pp[1][c], Pp[2][c]>>)]]]

\* a prediction that overwrites the state estimate with the measurement
\* and leaves the covariance as it was
prediction_StateOnly(k, dt_k, z_k) ==
  [k EXCEPT !.transition_matrix = A_k(dt_k),
            !.control_matrix = B_k(dt_k),
            !.state_post = [r \in 1 .. X_DIM |->
                              IF r <= Z_DIM THEN z_k[r] ELSE @[r]]]

prediction(k, dt_k, z_k) ==
  LET u == 0
      k1 == [k EXCEPT !.transition_matrix = A_k(dt_k),
                      !.control_matrix = B_k(dt_k)]
  IN  cvKalmanCorrect(cvKalmanPredict(k1, u), z_k)

\* the matrix a caller supplies as P0[i]
SuppliedCov(d) == cvSetIdentity(X_DIM, X_DIM, d * FIX)

\* the body of the loop of setup_kalman for filter i
SetupFilter(k, i, xs, Ps) ==
  IF ~k.alloc THEN k
  ELSE [k EXCEPT
          !.measurement_matrix = cvSetIdentity(Z_DIM, X_DIM, FIX),
          !.process_noise_cov = cvSetIdentity(X_DIM, X_DIM, PROCESS_NOISE),
          !.measurement_noise_cov = cvSetIdentity(Z_DIM, Z_DIM, MEASUREMENT_NOISE),
          !.state_post = IF xs # NULL /\ xs[i] # NULL THEN xs[i] ELSE ZeroVec,
          !.error_cov_post = IF Ps # NULL /\ Ps[i] # NULL_COV
                               THEN ArbitraryMat
                               ELSE cvSetIdentity(X_DIM, X_DIM, INIT_COV * FIX)]

setup_kalman(ks, cnt, xs, Ps) ==
  [i \in 1 .. cnt |-> SetupFilter(ks[i], i, xs, Ps)]

\* memcpy reads X_DIM * X_DIM floats from the array of pointers
ReadsPastP0(ks, Ps) ==
  \E i \in 1 .. Len(ks) : ks[i].alloc /\ Ps # NULL /\ Ps[i] # NULL_COV

NoPred == [f |-> 0, dt |-> 0, from |-> ZeroVec, z |-> <<0, 0>>]

KalIdle ==
  /\ kal = << >>
  /\ x0 = NULL
  /\ P0 = NULL
  /\ k_pc = "idle"
  /\ nCycles = 0
  /\ pred = NoPred

KalInit ==
  /\ \E cnt \in 1 .. MaxFilters :
       /\ kal \in [1 .. cnt -> {NewFilter, NullFilter}]
       /\ x0 \in StateArrays(cnt)
       /\ P0 \in CovArrays(cnt)
  /\ k_pc = "setup"
  /\ nCycles = 0
  /\ pred = NoPred

\* setup_kalman(kal, n, x0, P0); the copy out of the pointer array runs
\* past the end of the array, which the process survives or not
SetupKalman(crash) ==
  /\ k_pc = "setup"
  /\ IF crash /\ ReadsPastP0(kal, P0)
       THEN /\ k_pc' = "crashed"
            /\ UNCHANGED kal
       ELSE /\ k_pc' = "run"
            /\ kal' = setup_kalman(kal, Len(kal), x0, P0)
  /\ UNCHANGED <<x0, P0, nCycles, pred>>
  /\ UNCHANGED <<mainVars, calVars, roiVars, irVars>>

\* the time steps tried in a cycle, and how far the measurement lies above
\* the position the caller expects
TimeSteps == {1, 2}
Innovation == FIX
Innovations == {0, Innovation}

\* prediction(kal[f], dt_k, z_k)
Prediction(f, dt_k, innov) ==
  /\ k_pc = "run"
  /\ nCycles < MaxCycles
  /\ f \in 1 .. Len(kal)
  /\ kal[f].alloc
  /\ LET from == kal[f].state_post
         ahead == IF from = ArbitraryVec THEN ZeroVec
                  ELSE MatVec(A_k(dt_k), from)
         z_k == <<ahead[1], ahead[2] + innov>>
     IN  /\ kal' = [kal EXCEPT ![f] = prediction(kal[f], dt_k, z_k)]
         /\ pred' = [f |-> f, dt |-> dt_k, from |-> from, z |-> z_k]
  /\ nCycles' = nCycles + 1
  /\ UNCHANGED <<x0, P0, k_pc>>
  /\ UNCHANGED <<mainVars, calVars, roiVars, irVars>>

KalNext ==
  \/ \E crash \in BOOLEAN : SetupKalman(crash)
  \/ \E f \in 1 .. MaxFilters, dt_k \in TimeSteps, innov \in Innovations :
       Prediction(f, dt_k, innov)


\* ---- TDahMe3Fc.cpp: TDahMe3Fc::initROIs ----
\* int seq[] = {ROI_0, ..., ROI_7}
RoiSeq == [i \in 1 .. MAX_ROI |-> i - 1]

NothingDone == [stop |-> "none", acquire |-> "none", base |-> "none"]

IrIdle ==
  /\ ir_pc = "idle"
  /\ ir_n = 0
  /\ ir_opts = [use_kal |-> FALSE, use_tmplt |-> FALSE]
  /\ ir_done = NothingDone
  /\ ir_seq = << >>
  /\ ir_ret = 0

\* a call initROIs(n, rw, rh, s, use_kal, use_tmplt)
IrInit ==
  /\ ir_pc = "stop"
  /\ ir_n \in 1 .. MAX_ROI
  /\ ir_opts \in [use_kal : BOOLEAN, use_tmplt : BOOLEAN]
  /\ ir_done = NothingDone
  /\ ir_seq = << >>
  /\ ir_ret = 0

\* if(Fg_stopAcquire(fg, PORT_A) != FG_OK) return Fg_getLastErrorNumber(fg);
\* r is the result of the call, e the last error number of the grabber
InitRoisStopAcquire(r, e) ==
  /\ ir_pc = "stop"
  /\ ir_done' = [ir_done EXCEPT !.stop = IF r = FG_OK THEN "ok" ELSE "failed"]
  /\ IF r # FG_OK
       THEN ir_pc' = "done" /\ ir_ret' = e
       ELSE ir_pc' = "acquire" /\ UNCHANGED ir_ret
  /\ UNCHANGED <<ir_n, ir_opts, ir_seq>>
  /\ UNCHANGED <<mainVars, calVars, roiVars, kalVars>>

\* if(me3_fc_acquire(fg, seq, n) != FG_OK) return Fg_getLastErrorNumber(fg);
InitRoisAcquire(r, e) ==
  /\ ir_pc = "acquire"
  /\ ir_done' = [ir_done EXCEPT !.acquire = IF r = FG_OK THEN "ok" ELSE "failed"]
  /\ IF r # FG_OK
       THEN ir_pc' = "done" /\ ir_ret' = e /\ UNCHANGED ir_seq
       ELSE /\ ir_pc' = "base"
            /\ ir_seq' = SubSeq(RoiSeq, 1, ir_n)
            /\ UNCHANGED ir_ret
  /\ UNCHANGED <<ir_n, ir_opts>>
  /\ UNCHANGED <<mainVars, calVars, roiVars, kalVars>>

\* if(TDah::initROIs(...) == CV_OK) { } return !CV_OK;
InitRoisBase(r) ==
  /\ ir_pc = "base"
  /\ ir_done' = [ir_done EXCEPT !.base = IF r = CV_OK THEN "ok" ELSE "failed"]
  /\ ir_pc' = "done"
  /\ ir_ret' = NotCvOk
  /\ UNCHANGED <<ir_n, ir_opts, ir_seq>>
  /\ UNCHANGED <<mainVars, calVars, roiVars, kalVars>>

IrNext ==
  \/ \E r \in FgResults, e \in FgErrCodes : InitRoisStopAcquire(r, e)
  \/ \E r \in FgResults, e \in FgErrCodes : InitRoisAcquire(r, e)
  \/ \E r \in {CV_OK, NotCvOk} : InitRoisBase(r)

vars == <<mainVars, calVars, roiVars, kalVars, irVars>>

\* the tracking program, main() of skeleton.cpp
Init == MainInit /\ CalIdle /\ RoiIdle /\ KalIdle /\ IrIdle
Next == MainNext
Spec == Init /\ [][Next]_vars

\* one call of a view collection routine
CalibInit == MainInit /\ CalInit /\ RoiIdle /\ KalIdle /\ IrIdle
CalibNext == CalNext
CalibSpec == CalibInit /\ [][CalibNext]_vars

\* set_initial_positions and position() on one window
RoiSpecInit == MainInit /\ CalIdle /\ RoiInit /\ KalIdle /\ IrIdle
RoiSpec == RoiSpecInit /\ [][RoiNext]_vars

\* setup_kalman on an array of filters, then cycles of prediction
KalSpecInit == MainInit /\ CalIdle /\ RoiIdle /\ KalInit /\ IrIdle
KalSpec == KalSpecInit /\ [][KalNext]_vars

\* one call of TDahMe3Fc::initROIs
IrSpecInit == MainInit /\ CalIdle /\ RoiIdle /\ KalIdle /\ IrInit
IrSpec == IrSpecInit /\ [][IrNext]_vars

(***************************************************************************)
(* Properties of the tracking loop                                         *)
(***************************************************************************)
AllLoaded ==
  loaded.intrinsic /\ loaded.distortion /\ loaded.rot /\ loaded.trans

LoopEnded == pc \in {"deinit", "done"}

StepOrder == <<"locate", "recenter", "write_roi", "convert", "emit", "advance">>

IsPrefix(s, t) == Len(s) <= Len(t) /\ s = SubSeq(t, 1, Len(s))

InSteps(x) == \E k \in 1 .. Len(steps) : steps[k] = x

\* C1: once the ROI id decoded from the tag is not the index of a configured
\* window, the loop has ended in that iteration, no window was written, no ROI
\* was written to the camera and nothing was emitted.
C1_UnconfiguredRoiEndsLoop ==
  (decoded /\ cur_roi \notin Configured) =>
    /\ LoopEnded
    /\ wins = snap
    /\ ~InSteps("write_roi")
    /\ ~InSteps("emit")

\* C2: after a timeout of the frame acquisition the iteration is skipped: the
\* expected frame number is unchanged, no window is mutated, no step of the
\* iteration runs, and the loop is back at its head, not ended.
C2_TimeoutSkipsIteration ==
  (lastAcq = "timeout") =>
    /\ img_nr = prev_img_nr
    /\ pc = "poll"
    /\ wins = snap
    /\ steps = <<>>
    /\ cause = "none"

\* C3: the steps of an iteration happen in the order locate, recenter, ROI
\* write, convert, emit, advance, each at most once, and an iteration that
\* comes back to the head of the loop has done each of them exactly once.
C3_StepOrder ==
  /\ IsPrefix(steps, StepOrder)
  /\ (pc = "poll" /\ nIter > 0) => steps = StepOrder
  /\ (pc = "write_roi") => steps = <<"locate", "recenter">>
  /\ (pc = "emit") => steps = <<"locate", "recenter", "write_roi", "convert">>

\* C3 witness: an iteration has run to its end
C3_Witness ==
  pc = "poll" /\ steps = StepOrder /\ nEmit = 1 /\ wins[cur_roi] # snap[cur_roi]

\* C6: unless all four calibration matrices were loaded, main() has returned
\* an error from startup, the loop is not entered and nothing is projected.
C6_ProjectionNeedsFullModel ==
  (pc # "load" /\ ~AllLoaded) =>
    /\ pc = "done"
    /\ status = "returned"
    /\ exitCode # FG_OK
    /\ nProj = 0
    /\ nIter = 0

\* C7: when the loop ended because of a fatal error (tag or timestamp read,
\* null image, comm port write) main() returns a non-zero status; 0 is
\* returned only after a quit.
C7_FatalExitNonZero ==
  (pc = "done" /\ status = "returned" /\ cause \in {"tag", "ts", "null", "comm"})
    => exitCode # FG_OK

\* C8: once write_roi has failed in an iteration, the loop has ended: nothing
\* is converted or emitted for that frame.
C8_RoiWriteFailureEndsLoop ==
  wrFailed => (LoopEnded /\ ~InSteps("convert") /\ ~InSteps("emit"))

\* C9: within an iteration every window other than the one indexed by the
\* decoded ROI id is as it was when the iteration began.
C9_OnlyTaggedWindowMutated ==
  \A i \in RoiIds : (~decoded \/ i # cur_roi) => wins[i] = snap[i]

\* C9 witness: the tagged window has been given a new blob box and ROI
C9_Witness ==
  /\ pc = "write_roi"
  /\ cur_roi = 1
  /\ RoiOf(wins[1]) # RoiOf(snap[1])
  /\ wins[1].blob_xmin # snap[1].blob_xmin

(***************************************************************************)
(* Properties of the view collection                                       *)
(***************************************************************************)
Boards(sq) == Cardinality({k \in 1 .. Len(sq) : sq[k]})

\* C4: the routine returns a count that is at most n and is the number of
\* views collected, and having read the whole of a source that shows fewer
\* boards than asked for it returns the number of boards shown.
C4_ReturnsCollectedCount ==
  (c_pc = "done") =>
    /\ ret <= n
    /\ ret = kept
    /\ (~prompt /\ lastKey # "q" /\ Boards(src) < n) => ret = Boards(src)

\* C5: when the routine has returned a count, the stored pixel-corner sets, the stored
\* world-corner sets and the stored chessboard images are as many as the
\* count returned.
C5_StoredEqualsReturned ==
  (c_pc = "done" /\ ~errRet) =>
    /\ (routine = "views") =>
         /\ Len(views.pixel) = ret
         /\ Len(views.world) = ret
         /\ save_views => Len(views.chessboards) = ret
    /\ (routine = "grid" /\ save_views) =>
         Cardinality({k \in 1 .. n : store_imgs[k] # 0}) = ret

(***************************************************************************)
(* Properties of the hardware ROI                                          *)
(***************************************************************************)
\* x offset and width multiples of 4, width at least 8, ROI inside the sensor
RoiValid(w) ==
  /\ w.roi_xoff % 4 = 0
  /\ w.roi_w % 4 = 0
  /\ w.roi_w >= 8
  /\ w.roi_xoff >= 0
  /\ w.roi_yoff >= 0
  /\ w.roi_xoff + w.roi_w <= w.img_w
  /\ w.roi_yoff + w.roi_h <= w.img_h
  /\ w.img_w = IMG_WIDTH
  /\ w.img_h = IMG_HEIGHT

\* C10: after set_initial_positions and after every recentering the window's
\* ROI has an x offset and a width that are multiples of 4, a width of at
\* least 8, and lies inside the sensor.
C10_RoiWithinHardwareLimits == RoiValid(track_win)

\* C10 witness: a blob at the left border of an ROI that is at the left and
\* top borders of the sensor; the recentred ROI is clamped there
C10_Witness ==
  /\ nRec > 0
  /\ track_win.roi_xoff = 0
  /\ track_win.roi_yoff = 0
  /\ track_win.blob_xmin = 0
  /\ track_win.blob_xmax = 9

ExpectedWorld(i) == [x |-> i % GridCols, y |-> -(i \div GridCols), z |-> 0]

\* C12: in every view collected by either routine the world coordinate
\* recorded for corner i is (i mod cols, -(i div cols), 0).
C12_WorldCoordinates ==
  /\ \A k \in 1 .. Len(views.world) : \A i \in 0 .. (num_points - 1) :
       views.world[k][i] = ExpectedWorld(i)
  /\ \A k \in 1 .. Len(op) : \A i \in 0 .. (num_points - 1) :
       pcnt[k] # 0 => op[k][i] = ExpectedWorld(i)

\* C13: get_camera_intrinsics returns CV_OK only when as many views as asked
\* for were collected and the calibration was saved; with fewer views it
\* returns another value and saves nothing.  Stated for the calls whose
\* first frame (read for the image size) was delivered.
C13_IntrinsicsOkOnlyWithAllViews ==
  (gci_pc = "done" /\ rd > 0) =>
    /\ (gci_ret = CV_OK) => (kept = n /\ persisted)
    /\ (kept < n) => (gci_ret # CV_OK /\ ~persisted)

\* the position part of the estimate x lies within tol of the measurement z
NearMeasurement(x, z, tol) ==
  \A a \in 1 .. Z_DIM : x[a] - z[a] <= tol /\ z[a] - x[a] <= tol
\* the tolerance: error_cov_pre is at least the process noise Q, so the
\* gain leaves at most R / Q of the innovation, and the quotients round
CorrectTolerance == (Innovation * MEASUREMENT_NOISE) \div PROCESS_NOISE + 2

\* C14: state_post and error_cov_post of a filter change only together.
\* In every step after setup, a filter whose state_post changes gets a new
\* error_cov_post in the same step; a filter whose error_cov_post changes
\* is the one the cycle ran on, and its state_post is the one corrected
\* with the measurement of that cycle.  Where the program does not determine
\* error_cov_post, a cycle leaves both undetermined and no other step
\* touches state_post.
C14_PosteriorUpdatedAsPair ==
  [][(k_pc = "run") =>
       \A i \in 1 .. Len(kal) :
         IF kal[i].error_cov_post = ArbitraryMat
           THEN /\ kal'[i].error_cov_post = ArbitraryMat
                /\ (kal'[i].state_post # kal[i].state_post) =>
                     (pred'.f = i /\ kal'[i].state_post = ArbitraryVec)
           ELSE /\ (kal'[i].state_post # kal[i].state_post) =>
                     kal'[i].error_cov_post # kal[i].error_cov_post
                /\ (kal'[i].error_cov_post # kal[i].error_cov_post) =>
                     /\ pred'.f = i
                     /\ NearMeasurement(kal'[i].state_post, pred'.z,
                                        CorrectTolerance)]_vars

C14_Witness ==
  /\ k_pc = "run"
  /\ nCycles = MaxCycles
  /\ pred.f = 1
  /\ kal[1].error_cov_post # ArbitraryMat
  /\ kal[1].error_cov_post # kal[1].error_cov_pre
  /\ pred.z # <<kal[1].state_pre[1], kal[1].state_pre[2]>>
  /\ kal[1].state_post[4] # kal[1].state_pre[4]

\* the closed form of a projectile after dt
Ballistic(x, dt) ==
  IF x = ArbitraryVec THEN ArbitraryVec
  ELSE
  <<x[1] + x[3] * dt,
    x[2] + x[4] * dt + (GRAVITY_FIX * dt * dt) \div 2,
    x[3],
    x[4] + GRAVITY_FIX * dt>>

\* C15: the predict step of a cycle with time step dt yields the ballistic
\* transition of the previous estimate: x + vx*dt, y + vy*dt + 0.5*g*dt^2,
\* vx, vy + g*dt.
C15_PredictIsBallistic ==
  (pred.f # 0) => kal[pred.f].state_pre = Ballistic(pred.from, pred.dt)

\* C20: setup_kalman gives every filter its own initial values: state_post
\* is x0[i] when supplied and zero otherwise, error_cov_post is P0[i] when
\* supplied and 100 * I otherwise; slots without filter stay untouched.
C20_PerFilterInitialization ==
  (k_pc = "run" /\ nCycles = 0) =>
    \A i \in 1 .. Len(kal) :
      IF kal[i].alloc
        THEN /\ kal[i].state_post =
                  (IF x0 # NULL /\ x0[i] # NULL THEN x0[i] ELSE ZeroVec)
             /\ kal[i].error_cov_post =
                  (IF P0 # NULL /\ P0[i] # NULL_COV THEN SuppliedCov(P0[i])
                   ELSE cvSetIdentity(X_DIM, X_DIM, INIT_COV * FIX))
        ELSE kal[i] = NullFilter

\* the positions of main() inside an iteration that has acquired a frame
InIteration ==
  pc \in {"tag", "ts", "imgptr", "locate", "position", "write_roi",
          "convert", "emit", "display", "advance"}

\* a quit request is pending: 'q' is among the keys not yet read
QuitPending == \E slot \in 1 .. Len(kb) : kb[slot] = "q"

\* what holds of every step whichever key is pending: the loop ends for
\* "quit" only from the loop condition when it reads 'q'; keys leave the
\* console only there, one per test; a key arriving during an iteration
\* changes nothing but the console; the end of the body leads back to the
\* loop condition
QuitPolledAtBoundary ==
  /\ (cause' = "quit" /\ cause # "quit") => (pc = "poll" /\ QuitKeyNext(kb))
  /\ (Len(kb') < Len(kb)) => (pc = "poll" /\ pc' # pc /\ kb' = Tail(kb))
  /\ (pc = "poll" /\ pc' # pc /\ kb # << >>) => kb' = Tail(kb)
  /\ (InIteration /\ kb' # kb) => (pc' = pc /\ steps' = steps /\ cause' = cause)
  /\ (pc = "advance" /\ pc' # pc) => pc' = "poll"

\* the loop condition ends the loop without acquiring another frame
StopsBeforeNextFrame ==
  /\ pc' = "deinit"
  /\ cause' = "quit"
  /\ nIter' = nIter
  /\ img_nr' = img_nr
  /\ lastAcq' = lastAcq

\* C16 as stated: the quit key is read only by the loop condition, once
\* per pass, a key arriving during an iteration changes nothing but the
\* console, and with a quit request pending at the loop condition the loop
\* ends without acquiring another frame.
C16_QuitOnlyAtBoundary ==
  [][ /\ QuitPolledAtBoundary
      /\ (pc = "poll" /\ QuitPending /\ pc' # pc) => StopsBeforeNextFrame
    ]_vars

\* C16 amended: as above, but the loop ends without acquiring another frame
\* when 'q' is the key the loop condition reads, the oldest unread one; a
\* test that reads another key begins an iteration and leaves the keys
\* behind it for the later tests.
C16_QuitReadAtBoundary ==
  [][ /\ QuitPolledAtBoundary
      /\ (pc = "poll" /\ QuitKeyNext(kb) /\ pc' # pc) => StopsBeforeNextFrame
      /\ (pc = "poll" /\ ~QuitKeyNext(kb) /\ pc' # pc) =>
           (pc' = "grab" /\ nIter' = nIter + 1 /\ cause' = cause)
    ]_vars

\* C16 witness: 'q' is pending while the iteration has done its ROI write
\* and its emit and goes on to its end
C16_Witness ==
  /\ pc = "advance"
  /\ QuitKeyNext(kb)
  /\ steps = <<"locate", "recenter", "write_roi", "convert", "emit">>
  /\ cause = "none"

\* C17: with prompting on, 'q' typed for a frame on which the board was
\* found ends the collection with no further pass of the loop, in both
\* routines; with prompting off, a collection that ends short of the
\* requested number ended on 'q' or at the end of the source.
C17_InteractiveQuitEndsCollection ==
  /\ (prompt /\ lastKey = "q" /\ rd > 0 /\ src[rd]) =>
       ~(c_pc = "loop" /\ good_imgs < n)
  /\ (~prompt /\ c_pc = "done" /\ ~errRet /\ good_imgs < n) =>
       (lastKey = "q" \/ rd = Len(src))

\* a frame without blob neither ends the loop nor stops the process: if the
\* loop ends in that iteration it ends for a cause that does not depend on
\* the blob (the comm port, or the conversion without a translation vector)
NoBlobGoesOn ==
  (blob = "missing") =>
    /\ (pc = "poll") => steps = StepOrder
    /\ LoopEnded =>
         \/ cause = "comm"
         \/ status = "crashed" /\ ~loaded.trans /\ cause = "none"

\* the positions of main() that follow the call of position()
AfterPosition == {"write_roi", "convert", "emit", "display", "advance"}

\* C18: a frame without blob never ends the loop or stops the process, and
\* the iteration takes a branch of its own: what it does after position()
\* is not what an iteration that found a blob does.
C18_NoBlobBranchTaken ==
  /\ NoBlobGoesOn
  /\ (blob = "missing" /\ pc \in AfterPosition) => ~IsPrefix(steps, StepOrder)

\* C19: at the head of the loop, after an iteration that acquired a frame
\* has advanced the frame number, no window and no display header holds the
\* pointer to a frame buffer (0 is the NULL pointer).
C19_NoBufferHeldAtBoundary ==
  (pc = "poll" /\ nIter > 0 /\ steps = StepOrder /\ lastAcq = "frame") =>
    /\ \A i \in RoiIds : wins[i].img = 0
    /\ gui = <<0, 0>>

\* the frames acquired without error among the processed ones
Increasing(sq) ==
  \A j, k \in 1 .. Len(sq) :
    (j < k /\ IsFrameCount(sq[j]) /\ IsFrameCount(sq[k])) => sq[j] < sq[k]

\* C21: frames are processed one after another in increasing order: the
\* numbers of the processed frames increase strictly, the end of an
\* iteration sets the expected number to the processed number plus one, a
\* frame delivered by the grabber is newer than every processed one, and
\* the grabber is asked for a frame only from the loop condition, after the
\* previous iteration has done all its steps.
C21_FramesInIncreasingOrder ==
  [][ /\ Increasing(processed')
      /\ (pc = "advance" /\ pc' = "poll") =>
           /\ img_nr' = img_nr + 1
           /\ processed' = Append(processed, img_nr)
           /\ steps' = StepOrder
      /\ (pc = "grab" /\ pc' # pc /\ lastAcq' = "frame") =>
           /\ steps = <<>>
           /\ \A k \in 1 .. Len(processed) :
                IsFrameCount(processed[k]) => processed[k] < img_nr'
      /\ (pc' = "grab" /\ pc # "grab") =>
           /\ pc = "poll"
           /\ nIter = 0 \/ steps = StepOrder
      /\ (processed' # processed) => pc = "advance"
    ]_vars

\* C21 witness: two frames were processed, the second one after the grabber
\* skipped a frame
C21_Witness ==
  /\ processed = <<1, 3>>
  /\ pc = "poll"
  /\ img_nr = 4

\* twice the centre of the initial blob box of window i, in image coordinates
InitialCentre2(i) ==
  <<INIT_BLOB_COORD_MIN[i + 1] + INIT_BLOB_COORD_MAX[i + 1],
    INIT_BLOB_COORD_MIN[i + 1 + SEQ_LEN] + INIT_BLOB_COORD_MAX[i + 1 + SEQ_LEN]>>

C23_InitRoisReportsSuccess ==
  (ir_pc = "done") =>
    (ir_ret = CV_OK <=>
       (ir_done.stop = "ok" /\ ir_done.acquire = "ok" /\ ir_done.base = "ok"))

\* C24: in grab_calib_grid the count good_imgs stays within 0 .. num_imgs,
\* every row written to the point buffers lies below num_imgs * num_points,
\* and the slots of the views counted so far hold, in the order of the
\* frames, views on which the board was found: the slot of a discarded
\* view is the one the next view is written to.
C24_CollectionStaysInBuffers ==
  (routine \in GridCallers) =>
    /\ 0 <= good_imgs /\ good_imgs <= n
    /\ maxRow < n * num_points
    /\ \A k \in 1 .. good_imgs :
         /\ pcnt[k] = num_points
         /\ ip[k] \in 1 .. rd
         /\ src[ip[k]]
         /\ k > 1 => ip[k - 1] < ip[k]

\* C24 witness: the view of frame 2 was discarded with 'i' and the view of
\* frame 3 was written over it in the first slot
C24_Witness ==
  /\ routine = "grid"
  /\ prompt
  /\ src = <<TRUE, TRUE, TRUE>>
  /\ rd = 3
  /\ good_imgs = 1
  /\ kept = 1
  /\ ip[1] = 3
  /\ maxRow = num_points - 1

====
